---------------------------- MODULE Spec2Model ----------------------------
(***************************************************************************)
(* Model of the text-transformation and process-bridging layer:            *)
(*   src/src/channels/attachment.rs  parse_attachment_markers              *)
(*   src/src/providers/kiro.rs       strip_ansi_and_artifacts,             *)
(*                                   convert_md_images,                    *)
(*                                   detect_bare_image_paths,              *)
(*                                   KiroProvider::messages_to_prompt,     *)
(*                                   KiroProvider::invoke_kiro             *)
(*                                                                         *)
(* A Rust String is modelled as the sequence of its UTF-8 code units.  An  *)
(* ASCII character is the one-character string naming it ("a", "[", "\f", *)
(* ...), ESC (0x1B) is "ESC" and the vertical tab (0x0B) is "VT".  A       *)
(* multi-byte character is its lead unit followed by its one, two or three *)
(* continuation units, written "CB".  Every lead unit names one character, *)
(* so that two texts are equal exactly when their units are:               *)
(*                                                                         *)
(*   lead  character  bytes        whitespace  alphanumeric  lowercase     *)
(*   "L2"  U+00A7     C2 A7            no          no        itself        *)
(*   "D2"  U+0307     CC 87            no          no        itself        *)
(*   "L3"  U+20AC     E2 82 AC         no          no        itself        *)
(*   "R3"  U+FFFD     EF BF BD         no          no        itself        *)
(*   "L4"  U+1F600    F0 9F 98 80      no          no        itself        *)
(*   "P4"  U+10FFFD   F4 8F BF BD      no          no        itself        *)
(*   "W2"  U+00A0     C2 A0            yes         no        itself        *)
(*   "W3"  U+3000     E3 80 80         yes         no        itself        *)
(*   "A2"  U+00E9     C3 A9            no          yes       itself        *)
(*   "E2"  U+00C9     C3 89            no          yes       U+00E9        *)
(*   "S2"  U+00DF     C3 9F            no          yes       itself        *)
(*   "A3"  U+4E2D     E4 B8 AD         no          yes       itself        *)
(*   "B3"  U+6587     E6 96 87         no          yes       itself        *)
(*   "D3"  U+0915     E0 A4 95         no          yes       itself        *)
(*   "H3"  U+D55C     ED 95 9C         no          yes       itself        *)
(*   "V3"  U+2C65     E2 B1 A5         no          yes       itself        *)
(*   "A4"  U+10428    F0 90 90 A8      no          yes       itself        *)
(*   "B4"  U+10400    F0 90 90 80      no          yes       U+10428       *)
(*   "U2"  U+023A     C8 BA            no          yes       U+2C65        *)
(*   "S3"  U+1E9E     E1 BA 9E         no          yes       U+00DF        *)
(*   "K3"  U+212A     E2 84 AA         no          yes       "k"           *)
(*   "I2"  U+0130     C4 B0            no          yes       "i", U+0307   *)
(*                                                                         *)
(* The characters of a text are those of this table and the ASCII ones.    *)
(* The bytes a child writes need not be UTF-8: there a lead unit is the    *)
(* first byte of its character, "CB" is a continuation byte (0x80..0xBF)   *)
(* that the lead unit before it admits, "CX" is a continuation byte that   *)
(* the lead unit before it does not admit as its second byte (0xE0, 0xED,  *)
(* 0xF0 and 0xF4 admit a part of the range only), and "XX" is a byte that  *)
(* can stand in no UTF-8 text (0xC0, 0xF5, 0xFF, ...).  "CX" and "XX"      *)
(* never occur in a String.  Offsets are 0-based byte offsets as in the    *)
(* source, and NoneIdx stands for the None of an Option<usize>.            *)
(***************************************************************************)
EXTENDS Integers, Sequences, FiniteSets, TLC

VARIABLES
    message,      \* parse_attachment_markers: the argument
    cleaned,      \* parse_attachment_markers: the returned cleaned text
    attachments,  \* parse_attachment_markers: the returned attachments
    raw,          \* strip_ansi_and_artifacts: the argument (child's stdout)
    text,         \* the sanitizer's current text
    stage,        \* the sanitizer's position
    calls,        \* number of detect_bare_image_paths applications so far
    messages,     \* messages_to_prompt: the history
    prompt,       \* the prompt built / handed to invoke_kiro
    pc,           \* position of the operation in progress
    child,        \* invoke_kiro: the subprocess: its state, whether it holds
                  \* its stdin open, its exit status and what it wrote
    result,       \* invoke_kiro: the returned Result
    pipes         \* invoke_kiro: the child's program and the three pipes

vars == <<message, cleaned, attachments, raw, text, stage, calls,
          messages, prompt, pc, child, result, pipes>>

-----------------------------------------------------------------------------
(* Strings                                                                 *)

NoneIdx == 0 - 1

UpperLetters == <<"A","B","C","D","E","F","G","H","I","J","K","L","M",
                  "N","O","P","Q","R","S","T","U","V","W","X","Y","Z">>

LowerLetters == <<"a","b","c","d","e","f","g","h","i","j","k","l","m",
                  "n","o","p","q","r","s","t","u","v","w","x","y","z">>

Digits == {"0","1","2","3","4","5","6","7","8","9"}

Range(f) == {f[i] : i \in DOMAIN f}

\* char::is_ascii_alphabetic
IsAsciiAlphabetic(c) == c \in Range(UpperLetters) \cup Range(LowerLetters)

MinOf(S) == CHOOSE x \in S : \A y \in S : x <= y

MaxOf(S) == CHOOSE x \in S : \A y \in S : y <= x

\* the number of UTF-8 code units of the character a unit starts
Width(c) ==
    CASE c \in {"L2", "D2", "W2", "A2", "E2", "S2", "U2", "I2"}       -> 2
      [] c \in {"L3", "R3", "W3", "A3", "B3", "D3", "H3", "V3", "S3", "K3"} -> 3
      [] c \in {"L4", "P4", "A4", "B4"}                               -> 4
      [] OTHER                                                        -> 1

\* a UTF-8 continuation unit
IsContinuation(b) == b \in {"CB", "CX"}

\* the character (named by its first unit) that unit i of the string s is
\* part of: what str::chars and the char predicates of str see there
CharAt(s, i) ==
    IF ~IsContinuation(s[i]) THEN s[i]
    ELSE LET back == {j \in (i - 3)..(i - 1) : j >= 1 /\ ~IsContinuation(s[j])}
         IN  IF back = {} THEN s[i] ELSE s[MaxOf(back)]

\* char::is_alphanumeric: Unicode Alphabetic or Numeric
IsAlphanumeric(c) ==
    \/ IsAsciiAlphabetic(c)
    \/ c \in Digits
    \/ c \in {"A2", "E2", "S2", "A3", "B3", "D3", "H3", "V3", "A4", "B4",
              "U2", "S3", "K3", "I2"}

\* char::is_whitespace: Unicode White_Space
IsWhitespace(c) == c \in {" ", "\n", "\t", "\r", "\f", "VT", "W2", "W3"}

\* char::to_ascii_uppercase
ToAsciiUpperChar(c) ==
    IF c \in Range(LowerLetters)
    THEN UpperLetters[CHOOSE i \in 1..26 : LowerLetters[i] = c]
    ELSE c

\* char::to_lowercase: the code units of the lowercase mapping of a character
ToLowerChar(c) ==
    CASE c \in Range(UpperLetters) ->
             <<LowerLetters[CHOOSE i \in 1..26 : UpperLetters[i] = c]>>
      [] c = "K3" -> <<"k">>
      [] c = "I2" -> <<"i", "D2", "CB">>
      [] c = "U2" -> <<"V3", "CB", "CB">>
      [] c = "S3" -> <<"S2", "CB">>
      [] c = "E2" -> <<"A2", "CB">>
      [] c = "B4" -> <<"A4", "CB", "CB", "CB">>
      [] OTHER    -> [k \in 1..Width(c) |-> IF k = 1 THEN c ELSE "CB"]

\* str::to_ascii_uppercase
ToAsciiUppercase(s) == [i \in 1..Len(s) |-> ToAsciiUpperChar(s[i])]

\* str::to_lowercase: every character replaced by its lowercase mapping
RECURSIVE ToLowercase(_)
ToLowercase(s) ==
    LET resized == {i \in 1..Len(s) : Len(ToLowerChar(s[i])) # Width(s[i])}
    IN  IF resized = {}
        THEN [i \in 1..Len(s) |->
                 IF IsContinuation(s[i]) THEN s[i] ELSE ToLowerChar(s[i])[1]]
        ELSE LET i == MinOf(resized)
             IN  ToLowercase(SubSeq(s, 1, i - 1)) \o ToLowerChar(s[i])
                   \o ToLowercase(SubSeq(s, i + Width(s[i]), Len(s)))

\* &s[a..b], 0-based and half-open
Slice(s, a, b) == SubSeq(s, a + 1, b)

\* &s[a..]
SliceFrom(s, a) == SubSeq(s, a + 1, Len(s))

\* whether pat occurs in s at 0-based offset i
MatchesAt(s, pat, i) ==
    /\ i >= 0
    /\ i + Len(pat) <= Len(s)
    /\ \A k \in 1..Len(pat) : s[i + k] = pat[k]

\* str::find: offset of the first occurrence, or None
Find(s, pat) ==
    LET hits == {i \in 0..(Len(s) - Len(pat)) : MatchesAt(s, pat, i)}
    IN  IF hits = {} THEN NoneIdx ELSE MinOf(hits)

\* str::contains
Contains(s, pat) == Find(s, pat) # NoneIdx

\* str::starts_with
StartsWith(s, pat) == MatchesAt(s, pat, 0)

\* str::ends_with
EndsWith(s, pat) == MatchesAt(s, pat, Len(s) - Len(pat))

\* str::strip_prefix(..).unwrap_or(s)
StripPrefixOr(s, pat) ==
    IF StartsWith(s, pat) THEN SliceFrom(s, Len(pat)) ELSE s

\* str::trim_matches: s from its first to its last character that does not
\* match, keep being the positions (1-based) of the characters that do not
TrimTo(s, keep) ==
    IF keep = {} THEN <<>> ELSE SubSeq(s, MinOf(keep), MaxOf(keep))

\* str::trim
Trim(s) == TrimTo(s, {i \in 1..Len(s) : ~IsWhitespace(CharAt(s, i))})

\* str::replace: every non-overlapping occurrence, left to right
RECURSIVE Replace(_, _, _)
Replace(s, from, to) ==
    LET i == Find(s, from)
    IN  IF i = NoneIdx \/ Len(from) = 0
        THEN s
        ELSE Slice(s, 0, i) \o to \o Replace(SliceFrom(s, i + Len(from)), from, to)

\* [String]::join
RECURSIVE Join(_, _)
Join(parts, sep) ==
    IF Len(parts) = 0 THEN <<>>
    ELSE IF Len(parts) = 1 THEN parts[1]
    ELSE parts[1] \o sep \o Join(Tail(parts), sep)

\* concatenation of a sequence of strings
Concat(parts) == Join(parts, <<>>)

-----------------------------------------------------------------------------
(* channels/attachment.rs                                                  *)

KindNames ==
    << [name |-> <<"I","M","A","G","E">>,                 kind |-> "Image"],
       [name |-> <<"P","H","O","T","O">>,                 kind |-> "Image"],
       [name |-> <<"D","O","C","U","M","E","N","T">>,     kind |-> "Document"],
       [name |-> <<"F","I","L","E">>,                     kind |-> "Document"],
       [name |-> <<"V","I","D","E","O">>,                 kind |-> "Video"],
       [name |-> <<"A","U","D","I","O">>,                 kind |-> "Audio"],
       [name |-> <<"V","O","I","C","E">>,                 kind |-> "Voice"] >>

\* from_marker without to_ascii_uppercase: the lookup becomes case-sensitive
from_marker_CaseSensitive(marker) ==
    LET m    == Trim(marker)
        hits == {i \in DOMAIN KindNames : KindNames[i].name = m}
    IN  IF hits = {} THEN "None" ELSE KindNames[CHOOSE i \in hits : TRUE].kind

\* AttachmentKind::from_marker; "None" stands for Option::None
from_marker(marker) ==
    LET m    == ToAsciiUppercase(Trim(marker))
        hits == {i \in DOMAIN KindNames : KindNames[i].name = m}
    IN  IF hits = {} THEN "None" ELSE KindNames[CHOOSE i \in hits : TRUE].kind

\* the closure without its target.is_empty() check
ParseMarker_AcceptEmptyTarget(marker) ==
    LET colon == Find(marker, <<":">>)
    IN  IF colon = NoneIdx THEN <<>>
        ELSE LET kind   == from_marker(Slice(marker, 0, colon))
                 target == Trim(SliceFrom(marker, colon + 1))
             IN  IF kind = "None" THEN <<>>
                 ELSE << [kind |-> kind, target |-> target] >>

\* the closure of parse_attachment_markers: marker.split_once(':').and_then(..);
\* an Option<Attachment> is <<>> (None) or <<attachment>> (Some)
ParseMarker(marker) ==
    LET colon == Find(marker, <<":">>)
    IN  IF colon = NoneIdx THEN <<>>
        ELSE LET kind   == from_marker(Slice(marker, 0, colon))
                 target == Trim(SliceFrom(marker, colon + 1))
             IN  IF kind = "None" THEN <<>>
                 ELSE IF target = <<>> THEN <<>>
                 ELSE << [kind |-> kind, target |-> target] >>

\* the while loop of parse_attachment_markers, from a cursor on
RECURSIVE ParseLoop(_, _, _, _)
ParseLoop(msg, cursor, acc, atts) ==
    IF ~(cursor < Len(msg))
    THEN [cleaned |-> acc, attachments |-> atts]
    ELSE
      LET open_rel == Find(SliceFrom(msg, cursor), <<"[">>)
      IN  IF open_rel = NoneIdx
          THEN [cleaned |-> acc \o SliceFrom(msg, cursor), attachments |-> atts]
          ELSE
            LET open      == cursor + open_rel
                acc1      == acc \o Slice(msg, cursor, open)
                close_rel == Find(SliceFrom(msg, open), <<"]">>)
            IN  IF close_rel = NoneIdx
                THEN [cleaned |-> acc1 \o SliceFrom(msg, open), attachments |-> atts]
                ELSE
                  LET close  == open + close_rel
                      parsed == ParseMarker(Slice(msg, open + 1, close))
                  IN  IF parsed # <<>>
                      THEN ParseLoop(msg, close + 1, acc1, Append(atts, parsed[1]))
                      ELSE ParseLoop(msg, close + 1,
                                     acc1 \o Slice(msg, open, close + 1), atts)

parse_attachment_markers(msg) ==
    LET r == ParseLoop(msg, 0, <<>>, <<>>)
    IN  [cleaned |-> Trim(r.cleaned), attachments |-> r.attachments]

-----------------------------------------------------------------------------
(* providers/kiro.rs: the sanitizer                                        *)

ESC == "ESC"

\* the inner while ending at the first alphanumeric character: a digit of the
\* parameters would end the sequence
AfterTerminator_Alphanumeric(s, j) ==
    LET alnum == {k \in j..Len(s) : IsAlphanumeric(s[k])}
    IN  IF alnum = {} THEN Len(s) + 1 ELSE MinOf(alnum) + 1

\* the inner while of strip_ansi_and_artifacts: the 1-based position after the
\* first ASCII alphabetic character at or after position j, or after the end
\* of the input when there is none
AfterTerminator(s, j) ==
    LET alpha == {k \in j..Len(s) : IsAsciiAlphabetic(s[k])}
    IN  IF alpha = {} THEN Len(s) + 1 ELSE MinOf(alpha) + 1

\* the first loop of strip_ansi_and_artifacts, from the 1-based position i on:
\* the characters up to the next escape character are pushed, the escape
\* character is not, and after "ESC [" the inner while is run
RECURSIVE AnsiLoop(_, _, _)
AnsiLoop(s, i, acc) ==
    LET escs == {k \in i..Len(s) : s[k] = ESC}
    IN  IF escs = {} THEN acc \o SubSeq(s, i, Len(s))
        ELSE LET e    == MinOf(escs)
                 acc1 == acc \o SubSeq(s, i, e - 1)
             IN  IF e + 1 <= Len(s) /\ s[e + 1] = "["
                 THEN AnsiLoop(s, AfterTerminator(s, e + 2), acc1)
                 ELSE AnsiLoop(s, e + 1, acc1)

\* strip_ansi_and_artifacts, lines 9-26: the control-sequence pass
StripControlSequences(s) == AnsiLoop(s, 1, <<>>)

\* str::lines
RECURSIVE Lines(_)
Lines(s) ==
    IF Len(s) = 0 THEN <<>>
    ELSE LET nl == Find(s, <<"\n">>)
         IN  IF nl = NoneIdx THEN <<s>>
             ELSE LET line == Slice(s, 0, nl)
                      l    == IF EndsWith(line, <<"\r">>)
                              THEN Slice(line, 0, Len(line) - 1) ELSE line
                  IN  <<l>> \o Lines(SliceFrom(s, nl + 1))

\* str::split_whitespace
RECURSIVE SplitWhitespace(_)
SplitWhitespace(s) ==
    LET word == {i \in 1..Len(s) : ~IsWhitespace(CharAt(s, i))}
    IN  IF word = {} THEN <<>>
        ELSE LET a    == MinOf(word)
                 stop == {i \in a..Len(s) : IsWhitespace(CharAt(s, i))}
                 b    == IF stop = {} THEN Len(s) + 1 ELSE MinOf(stop)
             IN  <<SubSeq(s, a, b - 1)>> \o SplitWhitespace(SubSeq(s, b, Len(s)))

\* the closure of the lines().map(..) of strip_ansi_and_artifacts
CleanLine(line) ==
    LET l == StripPrefixOr(line, <<">", " ">>)
    IN  IF EndsWith(l, <<"m", "m">>) THEN Slice(l, 0, Len(l) - 2)
        ELSE IF EndsWith(l, <<"m">>) THEN Slice(l, 0, Len(l) - 1)
        ELSE l

\* strip_ansi_and_artifacts, lines 28-39: the line-artifact pass and the trim
CleanLineArtifacts(s) ==
    LET ls == Lines(s)
    IN  Trim(Join([i \in 1..Len(ls) |-> CleanLine(ls[i])], <<"\n">>))

ImageOpen == <<"[","I","M","A","G","E",":">>

\* format!("[IMAGE:{path}]")
ImageMarker(path) == ImageOpen \o path \o <<"]">>

FileScheme == <<"f","i","l","e",":","/","/">>

ImgExts ==
    << <<".","p","n","g">>, <<".","j","p","g">>, <<".","j","p","e","g">>,
       <<".","g","i","f">>, <<".","w","e","b","p">>, <<".","b","m","p">> >>

\* the closure of trim_matches in detect_bare_image_paths
IsPathTrimmed(c) == ~IsAlphanumeric(c) /\ c \notin {"/", ".", "_", "-"}

\* word.trim_matches(..) in detect_bare_image_paths
CleanWord(word) ==
    TrimTo(word, {i \in 1..Len(word) : ~IsPathTrimmed(CharAt(word, i))})

\* the words of every line, in order
RECURSIVE WordsOf(_)
WordsOf(ls) ==
    IF Len(ls) = 0 THEN <<>> ELSE SplitWhitespace(ls[1]) \o WordsOf(Tail(ls))

\* the body of the loops of detect_bare_image_paths for one word
DetectWord(res, word) ==
    LET clean == CleanWord(word)
    IN  IF /\ StartsWith(clean, <<"/">>)
           /\ \E e \in DOMAIN ImgExts : EndsWith(ToLowercase(clean), ImgExts[e])
           /\ ~Contains(res, ImageMarker(clean))
        THEN Replace(res, clean, ImageMarker(clean))
        ELSE res

RECURSIVE DetectLoop(_, _)
DetectLoop(res, words) ==
    IF Len(words) = 0 THEN res
    ELSE DetectLoop(DetectWord(res, words[1]), Tail(words))

detect_bare_image_paths(s) == DetectLoop(s, WordsOf(Lines(s)))

\* the while loop of convert_md_images
RECURSIVE ConvertLoop(_, _)
ConvertLoop(remaining, acc) ==
    LET start == Find(remaining, <<"!", "[">>)
    IN  IF start = NoneIdx THEN acc \o remaining
        ELSE
          LET acc1        == acc \o Slice(remaining, 0, start)
              rem1        == SliceFrom(remaining, start)
              paren_start == Find(rem1, <<"]", "(">>)
              paren_end   == IF paren_start = NoneIdx THEN NoneIdx
                             ELSE Find(SliceFrom(rem1, paren_start + 2), <<")">>)
          IN  IF paren_end # NoneIdx
              THEN
                LET alt_text == Slice(rem1, 2, paren_start)
                    url      == Slice(rem1, paren_start + 2, paren_start + 2 + paren_end)
                    path     == StripPrefixOr(url, FileScheme)
                    rest     == SliceFrom(rem1, paren_start + 2 + paren_end + 1)
                IN  IF StartsWith(path, <<"/">>)
                    THEN ConvertLoop(rest, acc1 \o ImageMarker(path))
                    ELSE IF alt_text # <<>>
                    THEN ConvertLoop(rest, acc1 \o ImageMarker(url))
                    ELSE ConvertLoop(rest,
                             acc1 \o Slice(rem1, 0, paren_start + 2 + paren_end + 1))
              ELSE ConvertLoop(SliceFrom(rem1, 2), acc1 \o Slice(rem1, 0, 2))

\* convert_md_images, lines 45-74: the markdown conversion alone
ConvertMarkdown(s) == ConvertLoop(s, <<>>)

\* the String built by the loop is a value of its own, handed to
\* detect_bare_image_paths
convert_md_images(s) ==
    CHOOSE out \in { detect_bare_image_paths(converted) :
                       converted \in {ConvertMarkdown(s)} } : TRUE

\* each pass builds its String before the next pass reads it
strip_ansi_and_artifacts(s) ==
    CHOOSE out \in { convert_md_images(trimmed) :
                       trimmed \in { CleanLineArtifacts(stripped) :
                                       stripped \in {StripControlSequences(s)} } } : TRUE

-----------------------------------------------------------------------------
(* providers/kiro.rs: KiroProvider::messages_to_prompt                     *)

MAX_PROMPT_CHARS == 24000

MAX_HISTORY_TURNS == 8

\* "## Tool Use"
ToolUseAnchor == <<"#","#"," ","T","o","o","l"," ","U","s","e">>

UserPrefix == <<"U","s","e","r",":"," ">>

AssistantPrefix == <<"A","s","s","i","s","t","a","n","t",":"," ">>

\* str::rfind: offset of the last occurrence, or None
FindLast(s, pat) ==
    LET hits == {i \in 0..(Len(s) - Len(pat)) : MatchesAt(s, pat, i)}
    IN  IF hits = {} THEN NoneIdx ELSE MaxOf(hits)

\* the match with rfind for find in the system arm: the block kept starts at
\* the last anchor
RenderMessage_LastAnchor(msg) ==
    IF msg.role = "system"
    THEN LET idx == FindLast(msg.content, ToolUseAnchor)
         IN  IF idx # NoneIdx THEN <<SliceFrom(msg.content, idx)>> ELSE <<>>
    ELSE IF msg.role = "user" THEN <<UserPrefix \o msg.content>>
    ELSE IF msg.role = "assistant" THEN <<AssistantPrefix \o msg.content>>
    ELSE <<>>

\* the match arm taken for one message: the parts it pushes (none or one)
RenderMessage(msg) ==
    IF msg.role = "system"
    THEN LET idx == Find(msg.content, ToolUseAnchor)
         IN  IF idx # NoneIdx THEN <<SliceFrom(msg.content, idx)>> ELSE <<>>
    ELSE IF msg.role = "user" THEN <<UserPrefix \o msg.content>>
    ELSE IF msg.role = "assistant" THEN <<AssistantPrefix \o msg.content>>
    ELSE <<>>

\* the for loop of messages_to_prompt
RECURSIVE RenderParts(_)
RenderParts(msgs) ==
    IF Len(msgs) = 0 THEN <<>>
    ELSE RenderMessage(msgs[1]) \o RenderParts(Tail(msgs))

\* usize::saturating_sub
SaturatingSub(a, b) == IF a > b THEN a - b ELSE 0

\* "Keep system (first) + last N turns"
KeepWindow(parts) ==
    IF Len(parts) > MAX_HISTORY_TURNS + 1
    THEN LET system_part == parts[1]
             rest        == Tail(parts)
             tail        == SliceFrom(rest, SaturatingSub(Len(rest), MAX_HISTORY_TURNS))
         IN  <<system_part>> \o tail
    ELSE parts

\* str::is_char_boundary, i a 0-based byte offset
IsCharBoundary(s, i) ==
    \/ i = 0
    \/ i = Len(s)
    \/ i < Len(s) /\ ~IsContinuation(s[i + 1])

\* the index itself, whether or not a character starts there
FloorCharBoundary_NoFloor(s, index) ==
    IF index >= Len(s) THEN Len(s) ELSE index

\* str::floor_char_boundary
FloorCharBoundary(s, index) ==
    IF index >= Len(s) THEN Len(s)
    ELSE MaxOf({i \in SaturatingSub(index, 3)..index : IsCharBoundary(s, i)})

\* lines 206-210: the truncation to the budget
TruncatePrompt(p) ==
    IF Len(p) > MAX_PROMPT_CHARS
    THEN Slice(p, 0, FloorCharBoundary(p, MAX_PROMPT_CHARS))
    ELSE p

PartSeparator == <<"\n", "\n">>

messages_to_prompt(msgs) ==
    TruncatePrompt(Join(KeepWindow(RenderParts(msgs)), PartSeparator))

-----------------------------------------------------------------------------
(* providers/kiro.rs: KiroProvider::invoke_kiro                            *)

\* "context window has overflowed"
OverflowPhrase ==
    <<"c","o","n","t","e","x","t"," ","w","i","n","d","o","w"," ","h","a","s"," ",
      "o","v","e","r","f","l","o","w","e","d">>

\* U+FFFD REPLACEMENT CHARACTER
Replacement == <<"R3", "CB", "CB">>

\* the lead bytes that admit a part of 0x80..0xBF only as their second byte:
\* 0xE0, 0xED, 0xF0 and 0xF4
NarrowLeads == {"D3", "H3", "L4", "A4", "B4", "P4"}

\* whether unit k of bytes is a continuation byte that the character started
\* at unit i admits at that place
Admitted(bytes, i, k) ==
    /\ k <= Len(bytes)
    /\ IsContinuation(bytes[k])
    /\ ~(k = i + 1 /\ bytes[i] \in NarrowLeads /\ bytes[k] = "CX")

\* the number of continuation bytes that follow unit i of bytes and continue
\* the character started there, at most as many as the character needs
Following(bytes, i) ==
    Cardinality({k \in 1..(Width(bytes[i]) - 1) :
                   \A m \in 1..k : Admitted(bytes, i, i + m)})

\* whether the continuation unit i of bytes belongs to the character a lead
\* unit before it starts
InCharacter(bytes, i) ==
    \E d \in 1..3 : i - d >= 1 /\ Following(bytes, i - d) >= d

\* whether an ill-formed subsequence starts at unit i of bytes: a byte of no
\* UTF-8 text, a continuation byte of no character, or a lead byte without
\* all the continuation bytes of its character
IllFormedAt(bytes, i) ==
    \/ bytes[i] = "XX"
    \/ IsContinuation(bytes[i]) /\ ~InCharacter(bytes, i)
    \/ Following(bytes, i) < Width(bytes[i]) - 1

\* String::from_utf8_lossy: every maximal ill-formed subsequence becomes one
\* U+FFFD, the well-formed text is copied
RECURSIVE FromUtf8Lossy(_)
FromUtf8Lossy(bytes) ==
    LET bad == {i \in 1..Len(bytes) : IllFormedAt(bytes, i)}
    IN  IF bad = {} THEN bytes
        ELSE LET i == MinOf(bad)
             IN  SubSeq(bytes, 1, i - 1) \o Replacement
                   \o FromUtf8Lossy(SubSeq(bytes, i + 1 + Following(bytes, i), Len(bytes)))

\* line 161 without to_lowercase: the phrase is looked for as written
IsOverflow_CaseSensitive(txt) == Contains(txt, OverflowPhrase)

\* line 161: text.to_lowercase().contains("context window has overflowed")
IsOverflow(txt) == Contains(ToLowercase(txt), OverflowPhrase)

Ok(txt) == [tag |-> "ok", kind |-> "ok", text |-> txt, status |-> 0, stderr |-> <<>>]

Err(kind, status, stderr) ==
    [tag |-> "err", kind |-> kind, text |-> <<>>, status |-> status, stderr |-> stderr]

\* invoke_kiro, lines 152-165: the Result made of the collected Output
InterpretOutput(output) ==
    IF output.status # 0
    THEN Err("exit", output.status, FromUtf8Lossy(output.stderr))
    ELSE CHOOSE res \in
             { IF IsOverflow(txt) THEN Err("overflow", 0, <<>>) ELSE Ok(txt) :
                 txt \in { strip_ansi_and_artifacts(lossy) :
                             lossy \in {FromUtf8Lossy(output.stdout)} } } : TRUE

-----------------------------------------------------------------------------
(* Bounded inputs: every concatenation of at most n fragments              *)

InputsOver(frags, n) ==
    UNION { { Concat([i \in 1..k |-> frags[f[i]]]) : f \in [1..k -> DOMAIN frags] }
            : k \in 0..n }

\* ascending enumeration of a finite set of integers
SortedSeq(S) ==
    [k \in 1..Cardinality(S) |->
        CHOOSE x \in S : Cardinality({y \in S : y < x}) = k - 1]

\* the characters of s at the positions (1-based) in S, in order
Pick(s, S) == LET idx == SortedSeq(S) IN [k \in 1..Len(idx) |-> s[idx[k]]]

-----------------------------------------------------------------------------
(* Specification SpecParse: parse_attachment_markers on bounded messages   *)

MaxParseFrags == 3

ParseFragments ==
    << <<"[">>, <<"]">>, <<":">>, <<" ">>,
       <<"[","I","M","A","G","E",":","/","a",".","p","n","g","]">>,
       <<"[","p","h","o","t","o",":","p","]">>,
       <<"[","D","o","c","u","m","e","n","t",":"," ","d"," ","]">>,
       <<"[","F","I","L","E",":"," ","]">>,
       <<"[","v","i","d","e","o",":","v">>,
       <<"A","u","d","i","o",":","u","]">>,
       <<"[","\f","v","o","i","c","e","W2","CB",":","w","]">>,
       <<"[","x",":","y","]">>,
       <<"W3","CB","CB">> >>

ParseInputs(n) == InputsOver(ParseFragments, n)

NoChild ==
    [state |-> "none", stdin |-> "closed", status |-> 0, stdout |-> <<>>, stderr |-> <<>>]

NoResult == [tag |-> "none", kind |-> "none", text |-> <<>>, status |-> 0, stderr |-> <<>>]

\* no pipe is looked at: the subprocess is taken as a whole
NoPipes ==
    [unsent |-> <<>>, stdin |-> <<>>, stdinOpen |-> FALSE, got |-> <<>>, eof |-> FALSE,
     plan |-> 0, banner |-> <<>>, reply |-> <<>>, err |-> <<>>, code |-> 0,
     stdout |-> <<>>, stderr |-> <<>>, outRead |-> <<>>, errRead |-> <<>>]

ParseUnused ==
    /\ raw = <<>> /\ text = <<>> /\ stage = "idle" /\ calls = 0
    /\ messages = <<>> /\ prompt = <<>>
    /\ child = NoChild /\ result = NoResult /\ pipes = NoPipes

ParseInit ==
    /\ message \in ParseInputs(MaxParseFrags)
    /\ cleaned = <<>>
    /\ attachments = <<>>
    /\ pc = "parse"
    /\ ParseUnused

\* a channel adapter calls parse_attachment_markers on an outgoing message
ParseAttachmentMarkers ==
    /\ pc = "parse"
    /\ LET r == parse_attachment_markers(message)
       IN  /\ cleaned' = r.cleaned
           /\ attachments' = r.attachments
    /\ pc' = "parsed"
    /\ UNCHANGED <<message, raw, text, stage, calls, messages, prompt, child, result,
                   pipes>>

ParseNext == ParseAttachmentMarkers

SpecParse == ParseInit /\ [][ParseNext]_vars

-----------------------------------------------------------------------------
(* The marker syntax, stated on positions (1-based) of the message         *)

RecognizedNames ==
    { <<"I","M","A","G","E">>, <<"P","H","O","T","O">>,
      <<"D","O","C","U","M","E","N","T">>, <<"F","I","L","E">>,
      <<"V","I","D","E","O">>, <<"A","U","D","I","O">>, <<"V","O","I","C","E">> }

CanonicalKind(name) ==
    CASE name \in {<<"I","M","A","G","E">>, <<"P","H","O","T","O">>} -> "Image"
      [] name \in {<<"D","O","C","U","M","E","N","T">>, <<"F","I","L","E">>} -> "Document"
      [] name = <<"V","I","D","E","O">> -> "Video"
      [] name = <<"A","U","D","I","O">> -> "Audio"
      [] name = <<"V","O","I","C","E">> -> "Voice"

ClosesAfter(msg, o) == {c \in (o + 1)..Len(msg) : msg[c] = "]"}

\* an earlier '[' whose bracketed span (up to the first ']' after it) holds o
Covered(msg, o) ==
    \E p \in 1..(o - 1) : msg[p] = "[" /\ \A q \in (p + 1)..(o - 1) : msg[q] # "]"

\* the '[' ... ']' spans the left-to-right scan stops at
ScannedSpans(msg) ==
    {o \in 1..Len(msg) : msg[o] = "[" /\ ClosesAfter(msg, o) # {} /\ ~Covered(msg, o)}

\* every '[' that has a ']' after it
BracketSpans(msg) == {o \in 1..Len(msg) : msg[o] = "[" /\ ClosesAfter(msg, o) # {}}

SpanClose(msg, o) == MinOf(ClosesAfter(msg, o))

SpanBody(msg, o) == SubSeq(msg, o + 1, SpanClose(msg, o) - 1)

HasColon(body) == \E i \in 1..Len(body) : body[i] = ":"

FirstColon(body) == MinOf({i \in 1..Len(body) : body[i] = ":"})

KindPart(body) == SubSeq(body, 1, FirstColon(body) - 1)

TargetPart(body) == SubSeq(body, FirstColon(body) + 1, Len(body))

\* [KIND:target] with KIND one of the recognized names in any letter case and
\* a target that is not empty once trimmed
WellFormed(body) ==
    /\ HasColon(body)
    /\ ToAsciiUppercase(KindPart(body)) \in RecognizedNames
    /\ Trim(TargetPart(body)) # <<>>

\* the same with blanks allowed around KIND
WellFormedLenient(body) ==
    /\ HasColon(body)
    /\ ToAsciiUppercase(Trim(KindPart(body))) \in RecognizedNames
    /\ Trim(TargetPart(body)) # <<>>

ExpectedAttachment(body) ==
    [kind   |-> CanonicalKind(ToAsciiUppercase(Trim(KindPart(body)))),
     target |-> Trim(TargetPart(body))]

\* the attachments of the spans in S, in source order
ExpectedAttachments(msg, S) ==
    LET idx == SortedSeq(S)
    IN  [k \in 1..Len(idx) |-> ExpectedAttachment(SpanBody(msg, idx[k]))]

\* positions of msg outside the spans that start in S
Outside(msg, S) ==
    {p \in 1..Len(msg) : ~\E o \in S : o <= p /\ p <= SpanClose(msg, o)}

RECURSIVE IsSubseq(_, _)
IsSubseq(a, b) ==
    IF Len(a) = 0 THEN TRUE
    ELSE IF Len(b) = 0 THEN FALSE
    ELSE IF a[1] = b[1] THEN IsSubseq(Tail(a), Tail(b))
    ELSE IsSubseq(a, Tail(b))

ContainsWellFormedMarker(s) == \E o \in BracketSpans(s) : WellFormed(SpanBody(s, o))

-----------------------------------------------------------------------------
(* C1                                                                      *)

-----------------------------------------------------------------------------
(* C2                                                                      *)

Malformed(body) ==
    \/ ~HasColon(body)
    \/ ToAsciiUppercase(Trim(KindPart(body))) \notin RecognizedNames
    \/ Trim(TargetPart(body)) = <<>>

\* the '[' the scan stops at that has no ']' after it
UnmatchedOpens(msg) ==
    {u \in 1..Len(msg) : msg[u] = "[" /\ ClosesAfter(msg, u) = {} /\ ~Covered(msg, u)}

\* the positions the scan copies: those outside the spans that parse
Copied(msg) ==
    Outside(msg, {o \in ScannedSpans(msg) : ~Malformed(SpanBody(msg, o))})

\* the copied positions that the final trim removes at the front
LeadingBlank(msg) ==
    {p \in Copied(msg) : \A q \in Copied(msg) : q <= p => IsWhitespace(CharAt(msg, q))}

\* offset (0-based) in the cleaned text of the copied position p
CleanedOffset(msg, p) ==
    Cardinality({q \in Copied(msg) : q < p}) - Cardinality(LeadingBlank(msg))

TrimEnd(s) ==
    LET keep == {i \in 1..Len(s) : ~IsWhitespace(CharAt(s, i))}
    IN  IF keep = {} THEN <<>> ELSE SubSeq(s, 1, MaxOf(keep))

MalformedSpansPreserved ==
    /\ \A o \in ScannedSpans(message) :
          Malformed(SpanBody(message, o)) =>
              MatchesAt(cleaned, SubSeq(message, o, SpanClose(message, o)),
                        CleanedOffset(message, o))
    /\ Len(attachments) =
          Cardinality({o \in ScannedSpans(message) : ~Malformed(SpanBody(message, o))})

\* C2, as claimed: a scanned span with an unrecognized kind, no colon or an
\* empty trimmed target stands byte-for-byte in the cleaned text and yields no
\* attachment, and from an unmatched '[' on the rest of the message stands
\* verbatim at the end of the cleaned text.
C2_UnmatchedRemainderVerbatim ==
    pc = "parsed" =>
        /\ MalformedSpansPreserved
        /\ \A u \in UnmatchedOpens(message) :
              /\ EndsWith(cleaned, SubSeq(message, u, Len(message)))
              /\ CleanedOffset(message, u) = Len(cleaned) - (Len(message) - u + 1)

\* C2, amended: the same, except that the rest of the message after an
\* unmatched '[' stands in the cleaned text without its trailing whitespace,
\* which the final trim removes.
C2_MalformedPreservedUpToTrim ==
    pc = "parsed" =>
        /\ MalformedSpansPreserved
        /\ \A u \in UnmatchedOpens(message) :
              LET rest == TrimEnd(SubSeq(message, u, Len(message)))
              IN  /\ EndsWith(cleaned, rest)
                  /\ CleanedOffset(message, u) = Len(cleaned) - Len(rest)

\* a message with a malformed span, then an unmatched '[' whose remainder ends
\* in whitespace, has been parsed
C2_Witness ==
    /\ pc = "parsed"
    /\ \E o \in ScannedSpans(message) : Malformed(SpanBody(message, o))
    /\ \E u \in UnmatchedOpens(message) : IsWhitespace(CharAt(message, Len(message)))
    /\ attachments = <<>>

-----------------------------------------------------------------------------
(* Specification SpecSanitize: strip_ansi_and_artifacts on bounded outputs *)
(* of the subprocess, pass by pass                                         *)

MaxAnsiFrags == 4

MaxMdFrags == 3

AnsiFragments ==
    << <<ESC>>, <<"[">>, <<"1">>, <<"m">>, <<"A">>, <<"A2","CB">> >>

MdFragments ==
    << <<"!","[","c","]","(","f","i","l","e",":","/","/","/","t","m","p","/","c",".","p","n","g",")">>,
       <<"!","[","a","]","(","/","d","/","x",".","p","n","g",")">>,
       <<"!","[","a","]","(","r",".","p","n","g",")">>,
       <<"!","[","]","(","r",".","p","n","g",")">>,
       <<"!","[","a","]","(","f","i","l","e",":","/","/","r",".","p","n","g",")">>,
       <<" ">>,
       <<"/","x",".","p","n","g">>,
       <<"A2","CB">>,
       <<"!","[">>,
       <<"\n">>,
       <<"W3","CB","CB">>,
       <<"/","E2","CB",".","P","N","G">> >>

SanitizeInputs(a, m) ==
    InputsOver(AnsiFragments, a) \cup InputsOver(MdFragments, m)

SanitizeUnused ==
    /\ message = <<>> /\ cleaned = <<>> /\ attachments = <<>>
    /\ messages = <<>> /\ prompt = <<>>
    /\ child = NoChild /\ result = NoResult /\ pc = "sanitize" /\ pipes = NoPipes

SanitizeInit ==
    /\ raw \in SanitizeInputs(MaxAnsiFrags, MaxMdFrags)
    /\ text = raw
    /\ stage = "raw"
    /\ calls = 0
    /\ SanitizeUnused

SanitizeStep(from, to, out) ==
    /\ stage = from
    /\ text' = out
    /\ stage' = to
    /\ UNCHANGED <<message, cleaned, attachments, raw, calls, messages, prompt,
                   pc, child, result, pipes>>

\* strip_ansi_and_artifacts, lines 9-26
StripAnsi == SanitizeStep("raw", "stripped", StripControlSequences(text))

\* strip_ansi_and_artifacts, lines 28-39
CleanLines == SanitizeStep("stripped", "cleaned", CleanLineArtifacts(text))

\* convert_md_images, lines 45-74
ConvertMdImages == SanitizeStep("cleaned", "converted", ConvertMarkdown(text))

\* convert_md_images, line 75
DetectBareImagePaths == SanitizeStep("converted", "done", detect_bare_image_paths(text))

SanitizeNext == StripAnsi \/ CleanLines \/ ConvertMdImages \/ DetectBareImagePaths

SpecSanitize == SanitizeInit /\ [][SanitizeNext]_vars

\* the passes compose to the function
SanitizeIsFunction == stage = "done" => text = strip_ansi_and_artifacts(raw)

-----------------------------------------------------------------------------
(* Specification SpecDetect: detect_bare_image_paths applied to a text and *)
(* then to its own output                                                  *)

MaxDetectFrags == 4

MaxDetectCalls == 2

DetectFragments ==
    << <<"/","a",".","p","n","g">>, <<"/">>, <<" ">>, <<"A3","CB","CB">>, <<"\n">>, <<"(">>,
       <<"/","b",".","J","P","G">>, ImageOpen, <<"]">>, <<"\f">>,
       <<"/","A2","CB",".","p","n","g">>, <<"/","E2","CB",".","p","n","g">> >>

DetectInit ==
    /\ raw \in InputsOver(DetectFragments, MaxDetectFrags)
    /\ text = raw
    /\ stage = "detect"
    /\ calls = 0
    /\ SanitizeUnused

\* a caller applies detect_bare_image_paths to the current text
DetectAgain ==
    /\ stage = "detect"
    /\ calls < MaxDetectCalls
    /\ text' = detect_bare_image_paths(text)
    /\ calls' = calls + 1
    /\ UNCHANGED <<message, cleaned, attachments, raw, stage, messages, prompt,
                   pc, child, result, pipes>>

DetectNext == DetectAgain

SpecDetect == DetectInit /\ [][DetectNext]_vars

-----------------------------------------------------------------------------
(* C3                                                                      *)

\* C3, as claimed: detect_bare_image_paths is idempotent: applied to its own
\* output it returns that output unchanged.
C3_DetectIdempotent ==
    [][(stage = "detect" /\ calls >= 1) => text' = text]_vars

-----------------------------------------------------------------------------
(* C8                                                                      *)

\* an escape character followed by '['
IsCsiStart(s, i) == s[i] = ESC /\ i + 1 <= Len(s) /\ s[i + 1] = "["

\* position i lies after the "ESC [" of an earlier introducer and no ASCII
\* alphabetic character stands between the two
InsideCsi(s, i) ==
    \E j \in 1..(i - 2) :
        /\ IsCsiStart(s, j)
        /\ \A k \in (j + 2)..(i - 1) : ~IsAsciiAlphabetic(s[k])

\* the positions of the terminated sequences: from an "ESC [" that is not
\* inside an earlier sequence to the first ASCII alphabetic character
TerminatedCsi(s) ==
    {i \in 1..Len(s) :
        \/ IsCsiStart(s, i) /\ ~InsideCsi(s, i)
              /\ \E k \in (i + 2)..Len(s) : IsAsciiAlphabetic(s[k])
        \/ i >= 2 /\ IsCsiStart(s, i - 1) /\ ~InsideCsi(s, i - 1)
              /\ \E k \in (i + 1)..Len(s) : IsAsciiAlphabetic(s[k])
        \/ InsideCsi(s, i) /\ \E k \in i..Len(s) : IsAsciiAlphabetic(s[k])}

\* the positions of every sequence, terminated or running to the end
AnyCsi(s) ==
    {i \in 1..Len(s) :
        \/ IsCsiStart(s, i) /\ ~InsideCsi(s, i)
        \/ i >= 2 /\ IsCsiStart(s, i - 1) /\ ~InsideCsi(s, i - 1)
        \/ InsideCsi(s, i)}

\* C8, as claimed: the control-sequence pass discards exactly the spans from
\* an escape character immediately followed by '[' to the first ASCII
\* alphabetic character after it, and copies every other character unchanged
\* and in order.
C8_OnlyTerminatedSequencesDiscarded ==
    stage = "stripped" => text = Pick(raw, (1..Len(raw)) \ TerminatedCsi(raw))

\* C8, amended: the pass discards the spans from an escape character
\* immediately followed by '[' through the first ASCII alphabetic character
\* after it, or to the end of the input when none follows, and every escape
\* character that is not followed by '['; it copies every other character
\* unchanged and in order.
C8_SequencesAndLoneEscapesDiscarded ==
    stage = "stripped" =>
        text = Pick(raw, {i \in (1..Len(raw)) \ AnyCsi(raw) : raw[i] # ESC})

\* a terminated sequence with a parameter has been discarded whole: nothing
\* of it is left in the text
C8_Witness ==
    /\ stage = "stripped"
    /\ Len(raw) = 4
    /\ IsCsiStart(raw, 1) /\ raw[3] \in Digits /\ IsAsciiAlphabetic(raw[4])
    /\ text = <<>>

-----------------------------------------------------------------------------
(* C7                                                                      *)

\* what the markdown image ![alt](url) is to become
MdReplacement(alt, url) ==
    LET path == IF StartsWith(url, FileScheme) THEN SliceFrom(url, Len(FileScheme))
                ELSE url
    IN  IF StartsWith(path, <<"/">>) THEN <<"[","I","M","A","G","E",":">> \o path \o <<"]">>
        ELSE IF alt # <<>> THEN <<"[","I","M","A","G","E",":">> \o url \o <<"]">>
        ELSE <<"!","[">> \o alt \o <<"]","(">> \o url \o <<")">>

\* the replacements of the markdown images of t, left to right: an image is
\* "![", the alt text up to the next "](", the url up to the next ")"
RECURSIVE MdReplacements(_)
MdReplacements(t) ==
    LET bang == Find(t, <<"!","[">>)
    IN  IF bang = NoneIdx THEN <<>>
        ELSE LET from == SliceFrom(t, bang)
                 mid  == Find(from, <<"]","(">>)
                 stop == IF mid = NoneIdx THEN NoneIdx
                         ELSE Find(SliceFrom(from, mid + 2), <<")">>)
             IN  IF stop = NoneIdx THEN MdReplacements(SliceFrom(from, 2))
                 ELSE <<MdReplacement(Slice(from, 2, mid),
                                       Slice(from, mid + 2, mid + 2 + stop))>>
                      \o MdReplacements(SliceFrom(from, mid + 2 + stop + 1))

\* the items occur in s one after the other, without overlap
RECURSIVE OccursInOrder(_, _)
OccursInOrder(s, items) ==
    IF Len(items) = 0 THEN TRUE
    ELSE LET i == Find(s, items[1])
         IN  /\ i # NoneIdx
             /\ OccursInOrder(SliceFrom(s, i + Len(items[1])), Tail(items))

\* C7, as claimed: every markdown image of the output handed to the markdown
\* conversion stands in the final sanitized text as its marker (file://
\* stripped and the path absolute: [IMAGE:path]; not absolute and the alt text
\* non-empty: a marker; otherwise the markdown span itself), intact and in
\* order, whatever text surrounds it.
C7_MarkdownImagesBecomeMarkers ==
    stage = "done" =>
        OccursInOrder(text,
            MdReplacements(CleanLineArtifacts(StripControlSequences(raw))))

-----------------------------------------------------------------------------
(* Specification SpecPrompt: messages_to_prompt on bounded histories       *)

MaxMessages == 11

MaxSpecial == 2

TurnTags == <<"1","2","3","4","5","6","7","8","9","a","b","c","d","e","f","g","h">>

\* the k-th turn of a conversation: user and assistant alternate
Turn(k) ==
    [role    |-> IF k % 2 = 1 THEN "user" ELSE "assistant",
     content |-> <<"q", TurnTags[k]>>]

\* the other messages: a system prompt with text before the anchor and two
\* anchors, a system prompt without the anchor, a message of another role
SpecialMessages ==
    << [role    |-> "system",
        content |-> <<"i","n","t","r","o","\n">> \o ToolUseAnchor \o <<" ","P","\n">>
                    \o ToolUseAnchor \o <<" ","Q">>],
       [role    |-> "system", content |-> <<"#","#"," ","T","o","o","l","s">>],
       [role    |-> "tool",   content |-> <<"r">>] >>

History(n, P, f) ==
    [i \in 1..n |->
        IF i \in P THEN SpecialMessages[f[i]]
        ELSE Turn(Cardinality({j \in 1..i : j \notin P}))]

Histories(len, special) ==
    UNION { UNION { { History(n, P, f) : f \in [P -> DOMAIN SpecialMessages] }
                    : P \in {Q \in SUBSET (1..n) : Cardinality(Q) <= special} }
            : n \in 0..len }

PromptUnused ==
    /\ message = <<>> /\ cleaned = <<>> /\ attachments = <<>>
    /\ raw = <<>> /\ text = <<>> /\ stage = "idle" /\ calls = 0
    /\ child = NoChild /\ result = NoResult /\ pipes = NoPipes

PromptInit ==
    /\ messages \in Histories(MaxMessages, MaxSpecial)
    /\ prompt = <<>>
    /\ pc = "build"
    /\ PromptUnused

\* chat_with_history builds the prompt from the history
MessagesToPrompt ==
    /\ pc = "build"
    /\ prompt' = messages_to_prompt(messages)
    /\ pc' = "built"
    /\ UNCHANGED <<message, cleaned, attachments, raw, text, stage, calls,
                   messages, child, result, pipes>>

PromptNext == MessagesToPrompt

SpecPrompt == PromptInit /\ [][PromptNext]_vars

-----------------------------------------------------------------------------
(* The prompt, stated on the history                                       *)

\* the pieces of s between the occurrences of sep
RECURSIVE SplitOn(_, _)
SplitOn(s, sep) ==
    LET i == Find(s, sep)
    IN  IF i = NoneIdx THEN <<s>>
        ELSE <<Slice(s, 0, i)>> \o SplitOn(SliceFrom(s, i + Len(sep)), sep)

Pieces(p) == IF p = <<>> THEN <<>> ELSE SplitOn(p, <<"\n","\n">>)

IsTurn(msg) == msg.role \in {"user", "assistant"}

IsTurnPiece(piece) ==
    \/ StartsWith(piece, <<"U","s","e","r",":"," ">>)
    \/ StartsWith(piece, <<"A","s","s","i","s","t","a","n","t",":"," ">>)

HasAnchor(content) ==
    \E i \in 0..Len(content) : MatchesAt(content, <<"#","#"," ","T","o","o","l"," ","U","s","e">>, i)

\* the sub-block of a system message from its first anchor on
SystemBlock(content) ==
    LET first == CHOOSE i \in 0..Len(content) :
                    /\ MatchesAt(content, <<"#","#"," ","T","o","o","l"," ","U","s","e">>, i)
                    /\ \A j \in 0..(i - 1) :
                          ~MatchesAt(content, <<"#","#"," ","T","o","o","l"," ","U","s","e">>, j)
    IN  SubSeq(content, first + 1, Len(content))

\* what one message is to contribute: nothing (<<>>) or one part
ExpectedContribution(msg) ==
    CASE msg.role = "system" /\ HasAnchor(msg.content) -> <<SystemBlock(msg.content)>>
      [] msg.role = "system" /\ ~HasAnchor(msg.content) -> <<>>
      [] msg.role = "user" -> << <<"U","s","e","r",":"," ">> \o msg.content >>
      [] msg.role = "assistant" ->
            << <<"A","s","s","i","s","t","a","n","t",":"," ">> \o msg.content >>
      [] OTHER -> <<>>

RECURSIVE ExpectedContributions(_)
ExpectedContributions(msgs) ==
    IF Len(msgs) = 0 THEN <<>>
    ELSE ExpectedContribution(msgs[1]) \o ExpectedContributions(Tail(msgs))

ExpectedTurns(msgs) == ExpectedContributions(SelectSeq(msgs, IsTurn))

LastOf(s, n) == SubSeq(s, Len(s) - n + 1, Len(s))

-----------------------------------------------------------------------------
(* C4                                                                      *)

\* C4, as claimed: when the history has more than max_history_turns (8)
\* user/assistant turns, the turns in the prompt are exactly the 8 most recent
\* ones, in their original order.
C4_WindowKeepsLastTurns ==
    pc = "built" =>
        LET turns == ExpectedTurns(messages)
        IN  Len(turns) > 8 =>
                SelectSeq(Pieces(prompt), IsTurnPiece) = LastOf(turns, 8)

-----------------------------------------------------------------------------
(* C5                                                                      *)

\* C5, as claimed: the contribution of every system message that contains the
\* anchor is a part of the prompt, wherever the message stands in the history
\* and however long the history is.
C5_SystemContributionIncluded ==
    pc = "built" =>
        \A i \in DOMAIN messages :
            (messages[i].role = "system" /\ HasAnchor(messages[i].content)) =>
                \E k \in DOMAIN Pieces(prompt) :
                    Pieces(prompt)[k] = SystemBlock(messages[i].content)

-----------------------------------------------------------------------------
(* C10                                                                     *)

\* C10: a system message contributes its sub-block from the first anchor on
\* and nothing that precedes it, a system message without the anchor
\* contributes nothing, a user or assistant message contributes
\* "User: <content>" or "Assistant: <content>", a message of another role
\* contributes nothing: the parts of the prompt are such contributions, in the
\* order of the history, and all of them when they fit the window; stated for
\* the prompts that fit the character budget.
C10_Contributions ==
    pc = "built" =>
        LET E == ExpectedContributions(messages)
        IN  Len(Join(E, <<"\n","\n">>)) <= 24000 =>
                /\ IsSubseq(Pieces(prompt), E)
                /\ Len(E) <= 9 => prompt = Join(E, <<"\n","\n">>)

\* a history with a system message whose anchor has text before it, a message
\* of another role, a user and an assistant turn has been rendered, and the
\* text before the anchor is not in the prompt
C10_Witness ==
    /\ pc = "built"
    /\ \E i \in DOMAIN messages :
          /\ messages[i].role = "system"
          /\ HasAnchor(messages[i].content)
          /\ ~StartsWith(messages[i].content, ToolUseAnchor)
    /\ \E i \in DOMAIN messages : messages[i].role = "tool"
    /\ Len(SelectSeq(messages, IsTurn)) = 2
    /\ Len(Pieces(prompt)) = 3
    /\ ~Contains(prompt, <<"i","n","t","r","o">>)

-----------------------------------------------------------------------------
(* Specification SpecBudget: messages_to_prompt on histories whose joined  *)
(* parts are about as long as the character budget                         *)

MaxPad == 3

MaxShort == 3

\* the lead unit of a character of w bytes
LeadUnit(w) == CASE w = 1 -> "a" [] w = 2 -> "L2" [] w = 3 -> "L3" [] w = 4 -> "L4"

\* n characters of w bytes each
Filler(w, n) == [i \in 1..(w * n) |-> IF (i - 1) % w = 0 THEN LeadUnit(w) ELSE "CB"]

\* k ASCII characters, then characters of w bytes up to d characters short of
\* the budget
BudgetContent(k, w, d) ==
    [i \in 1..k |-> "a"] \o Filler(w, (MAX_PROMPT_CHARS \div w) - d)

BudgetHistory(shape, c) ==
    CASE shape = 1 -> << [role |-> "user", content |-> c] >>
      [] shape = 2 -> << [role |-> "system", content |-> ToolUseAnchor \o c] >>
      [] shape = 3 -> << [role |-> "system", content |-> ToolUseAnchor],
                         [role |-> "user", content |-> <<"h","i">>],
                         [role |-> "assistant", content |-> c] >>

BudgetHistories(pad, short) ==
    { BudgetHistory(shape, BudgetContent(k, w, d)) :
        shape \in 1..3, k \in 0..pad, w \in 1..4, d \in 0..short }

BudgetInit ==
    /\ messages \in BudgetHistories(MaxPad, MaxShort)
    /\ prompt = <<>>
    /\ pc = "build"
    /\ PromptUnused

SpecBudget == BudgetInit /\ [][PromptNext]_vars

-----------------------------------------------------------------------------
(* C9                                                                      *)

JoinedParts == Join(KeepWindow(RenderParts(messages)), <<"\n","\n">>)

\* C9: the prompt is at most max_prompt_chars (24000) bytes long and is a
\* prefix of the joined parts that ends where a character ends: the whole of
\* them when they fit, and otherwise the longest such prefix within the budget.
C9_WithinBudgetOnBoundary ==
    pc = "built" =>
        LET joined == JoinedParts
            n      == Len(prompt)
        IN  /\ n <= 24000
            /\ n <= Len(joined)
            /\ prompt = SubSeq(joined, 1, n)
            /\ n < Len(joined) => joined[n + 1] # "CB"
            /\ Len(joined) <= 24000 => n = Len(joined)
            /\ \A b \in (n + 1)..24000 : b < Len(joined) => joined[b + 1] = "CB"

\* joined parts longer than the budget have been cut before the budget, at
\* the end of a multi-byte character
C9_Witness ==
    /\ pc = "built"
    /\ Len(JoinedParts) > 24000
    /\ Len(prompt) < 24000
    /\ prompt[Len(prompt)] = "CB"

-----------------------------------------------------------------------------
(* Specification SpecInvoke: one invocation of invoke_kiro and its child   *)

MaxOutFrags == 3

OutFragments ==
    << OverflowPhrase,
       <<"C","o","n","t","e","x","t"," ","W","i","n","d","o","w"," ","H","A","S"," ",
         "o","v","e","r","f","l","o","w","e","d">>,
       <<ESC, "[">>,
       <<"!", "[", "]", "(", "/", "p", ")">>,
       <<"o", "K3", "CB", "CB">>,
       <<"C","o","n","t","e","x","t"," ","W","I2","CB","n","d","o","w"," ","h","a","s"," ",
         "o","v","e","r","f","l","o","w","e","d">>,
       <<"L3", "CB">> >>

ChildStdouts(n) == InputsOver(OutFragments, n)

ChildStderrs == {<<>>, <<"b","o","o","m","XX","L4","CX","CB","L4","CB","CB">>}

ExitCodes == {0, 1}

Prompts == {<<>>, <<"U","s","e","r",":"," ","h","i">>}

InvokeUnused ==
    /\ message = <<>> /\ cleaned = <<>> /\ attachments = <<>>
    /\ raw = <<>> /\ text = <<>> /\ stage = "idle" /\ calls = 0
    /\ messages = <<>>

InvokeInit ==
    /\ prompt \in Prompts
    /\ pc = "spawn"
    /\ child = NoChild
    /\ result = NoResult
    /\ pipes = NoPipes
    /\ InvokeUnused

InvokeFrame == UNCHANGED <<message, cleaned, attachments, raw, text, stage, calls,
                           messages, prompt, pipes>>

\* cmd.spawn() succeeds
Spawn ==
    /\ pc = "spawn"
    /\ child' = [child EXCEPT !.state = "running", !.stdin = "open"]
    /\ pc' = "write"
    /\ UNCHANGED result
    /\ InvokeFrame

\* cmd.spawn() fails: "Failed to spawn kiro-cli"
SpawnFails ==
    /\ pc = "spawn"
    /\ result' = Err("spawn", 0, <<>>)
    /\ pc' = "returned"
    /\ UNCHANGED child
    /\ InvokeFrame

\* the subprocess closes its stdin and goes on running: from then on a write
\* to the pipe fails
ChildClosesStdin ==
    /\ child.state = "running"
    /\ child.stdin = "open"
    /\ child' = [child EXCEPT !.stdin = "closed"]
    /\ UNCHANGED <<pc, result>>
    /\ InvokeFrame

\* the subprocess writes its output and exits
ChildExits ==
    /\ child.state = "running"
    /\ \E code \in ExitCodes, out \in ChildStdouts(MaxOutFrags), err \in ChildStderrs :
          child' = [state |-> "exited", stdin |-> "closed", status |-> code,
                    stdout |-> out, stderr |-> err]
    /\ UNCHANGED <<pc, result>>
    /\ InvokeFrame

\* stdin.write_all(prompt) succeeds and stdin is dropped: the subprocess
\* holds its stdin open, or there is nothing to write
WritePrompt ==
    /\ pc = "write"
    /\ child.stdin = "open" \/ prompt = <<>>
    /\ pc' = "wait"
    /\ UNCHANGED <<child, result>>
    /\ InvokeFrame

\* stdin.write_all(prompt) fails, the subprocess having closed its stdin,
\* while it runs or by exiting: "Failed to write prompt to kiro-cli stdin"
WritePromptFails ==
    /\ pc = "write"
    /\ child.stdin = "closed" /\ prompt # <<>>
    /\ result' = Err("write", 0, <<>>)
    /\ pc' = "returned"
    /\ UNCHANGED child
    /\ InvokeFrame

\* child.wait_with_output() returns the Output, and lines 152-165 make the
\* Result of it
WaitWithOutput ==
    /\ pc = "wait"
    /\ child.state = "exited"
    /\ result' = InterpretOutput(child)
    /\ child' = [child EXCEPT !.state = "reaped"]
    /\ pc' = "returned"
    /\ InvokeFrame

\* child.wait_with_output() fails: "Failed to wait for kiro-cli"
WaitFails ==
    /\ pc = "wait"
    /\ result' = Err("wait", 0, <<>>)
    /\ pc' = "returned"
    /\ UNCHANGED child
    /\ InvokeFrame

InvokeNext ==
    \/ Spawn
    \/ SpawnFails
    \/ ChildClosesStdin
    \/ ChildExits
    \/ WritePrompt
    \/ WritePromptFails
    \/ WaitWithOutput
    \/ WaitFails

SpecInvoke == InvokeInit /\ [][InvokeNext]_vars

-----------------------------------------------------------------------------
(* C6                                                                      *)

\* s contains the phrase "context window has overflowed" in any letter case
HasPhraseAnyCase(s) ==
    \E i \in 0..Len(s) :
        /\ i + 29 <= Len(s)
        /\ \A k \in 1..29 :
              s[i + k] \in {OverflowPhrase[k], ToAsciiUpperChar(OverflowPhrase[k])}

\* invoke_kiro has returned and the subprocess has exited
Exited == pc = "returned" /\ child.state \in {"exited", "reaped"}

\* success only when the subprocess exited with status 0 and its output does
\* not contain the phrase in any letter case
C6_SuccessOnlyOnCleanOutput ==
    (pc = "returned" /\ result.tag = "ok") =>
        /\ child.state \in {"exited", "reaped"} /\ child.status = 0
        /\ ~HasPhraseAnyCase(FromUtf8Lossy(child.stdout))

\* a non-zero exit always yields the error that carries the captured stderr
C6_NonZeroExitAlwaysExitError ==
    (Exited /\ child.status # 0) =>
        result.kind = "exit" /\ result.stderr = FromUtf8Lossy(child.stderr)

\* an exit 0 whose output contains the phrase always yields the overflow error
C6_PhraseAlwaysOverflowError ==
    (Exited /\ child.status = 0 /\ HasPhraseAnyCase(FromUtf8Lossy(child.stdout))) =>
        result.kind = "overflow"

\* C6, as claimed: invoke returns success only when the subprocess exited
\* with status 0 and its output does not contain the phrase in any letter
\* case; a non-zero exit always yields the error that carries the captured
\* stderr; an exit 0 whose output contains the phrase always yields the
\* overflow error.
C6_SuccessOnlyOnCleanExit ==
    /\ C6_SuccessOnlyOnCleanOutput
    /\ C6_NonZeroExitAlwaysExitError
    /\ C6_PhraseAlwaysOverflowError

\* C6, amended: success only when the subprocess exited with status 0 and its
\* sanitized output (the text strip_ansi_and_artifacts makes of stdout) does
\* not contain the phrase in any letter case, and the success is that text;
\* when invoke_kiro has collected the output of the subprocess, a non-zero
\* exit always yields the error that carries the status and the captured
\* stderr, and an exit 0 whose sanitized output contains the phrase always
\* yields the overflow error; when it has not, the spawn, the write of the
\* prompt or the wait has failed and it returns that error, the write failing
\* only when the subprocess has closed its stdin.
C6_SuccessOnlyOnCleanSanitizedExit ==
    pc = "returned" =>
        LET sanitized == strip_ansi_and_artifacts(FromUtf8Lossy(child.stdout))
        IN  /\ result.tag = "ok" =>
                  /\ child.state = "reaped" /\ child.status = 0
                  /\ ~HasPhraseAnyCase(sanitized)
                  /\ result.text = sanitized
            /\ (child.state = "reaped" /\ child.status # 0) =>
                  /\ result.tag = "err" /\ result.kind = "exit"
                  /\ result.status = child.status
                  /\ result.stderr = FromUtf8Lossy(child.stderr)
            /\ (child.state = "reaped" /\ child.status = 0 /\ HasPhraseAnyCase(sanitized)) =>
                  result.tag = "err" /\ result.kind = "overflow"
            /\ child.state # "reaped" =>
                  /\ result.tag = "err" /\ result.kind \in {"spawn", "write", "wait"}
                  /\ result.kind = "spawn" <=> child.state = "none"
                  /\ result.kind = "write" => child.stdin = "closed" /\ prompt # <<>>

\* an exit 0 whose output holds the phrase in mixed case, after other text,
\* has been turned into the overflow error
C6_Witness ==
    /\ pc = "returned"
    /\ child.state = "reaped" /\ child.status = 0
    /\ HasPhraseAnyCase(child.stdout)
    /\ ~Contains(child.stdout, OverflowPhrase)
    /\ result.kind = "overflow"

-----------------------------------------------------------------------------
(* Specification SpecPipes: one invocation of invoke_kiro with its three   *)
(* pipes of bounded capacity.  The subprocess is a program that writes a   *)
(* part of its output (its banner), reads its input to the end, writes the *)
(* rest of its output, and exits: left alone with a peer that reads, it    *)
(* reads all of its input, writes all of its output and exits.  A write    *)
(* to a full pipe and a read of an empty open pipe block.                  *)

PipeCapacity == 2

MaxPromptBytes == 3

MaxOutputBytes == 3

\* n bytes, all c
Bytes(c, n) == [i \in 1..n |-> c]

\* the programs of the subprocess: how many bytes of stdout it writes before
\* it reads (plan), stdout, stderr, exit code
ChildPrograms(n) ==
    UNION { { [plan |-> b, out |-> Bytes("o", k), err |-> Bytes("e", e), code |-> c] :
                b \in 0..k, e \in {0, n}, c \in ExitCodes }
            : k \in 0..n }

PipeInit ==
    /\ prompt \in { Bytes("p", n) : n \in 0..MaxPromptBytes }
    /\ pc = "spawn"
    /\ child = NoChild
    /\ result = NoResult
    /\ \E prog \in ChildPrograms(MaxOutputBytes) :
          pipes = [NoPipes EXCEPT !.unsent = prompt, !.stdinOpen = TRUE,
                                  !.plan = prog.plan,
                                  !.banner = SubSeq(prog.out, 1, prog.plan),
                                  !.reply = SubSeq(prog.out, prog.plan + 1, Len(prog.out)),
                                  !.err = prog.err, !.code = prog.code]
    /\ InvokeUnused

PipeFrame == UNCHANGED <<message, cleaned, attachments, raw, text, stage, calls,
                         messages, prompt>>

\* the bytes a write of data moves into a pipe holding held: as many as fit
Chunk(data, held) == MinOf({Len(data), PipeCapacity - Len(held)})

\* stdin.write_all(prompt.as_bytes()): one write of the bytes that fit; it
\* blocks while the stdin pipe is full
WriteChunk ==
    /\ pc = "write"
    /\ pipes.unsent # <<>>
    /\ Len(pipes.stdin) < PipeCapacity
    /\ LET k == Chunk(pipes.unsent, pipes.stdin)
       IN  pipes' = [pipes EXCEPT !.stdin = @ \o SubSeq(pipes.unsent, 1, k),
                                  !.unsent = SubSeq(@, k + 1, Len(@))]
    /\ UNCHANGED <<pc, child, result>>
    /\ PipeFrame

\* write_all has written the whole prompt; drop(stdin) closes the pipe
CloseStdin ==
    /\ pc = "write"
    /\ pipes.unsent = <<>>
    /\ pipes' = [pipes EXCEPT !.stdinOpen = FALSE]
    /\ pc' = "wait"
    /\ UNCHANGED <<child, result>>
    /\ PipeFrame

\* wait_with_output reads what is in the stdout pipe
ReadStdout ==
    /\ pc = "wait"
    /\ pipes.stdout # <<>>
    /\ pipes' = [pipes EXCEPT !.outRead = @ \o pipes.stdout, !.stdout = <<>>]
    /\ UNCHANGED <<pc, child, result>>
    /\ PipeFrame

\* wait_with_output reads what is in the stderr pipe
ReadStderr ==
    /\ pc = "wait"
    /\ pipes.stderr # <<>>
    /\ pipes' = [pipes EXCEPT !.errRead = @ \o pipes.stderr, !.stderr = <<>>]
    /\ UNCHANGED <<pc, child, result>>
    /\ PipeFrame

\* wait_with_output returns: the child has exited and both pipes are at their
\* end; lines 152-165 make the Result of the Output
CollectOutput ==
    /\ pc = "wait"
    /\ child.state = "exited"
    /\ pipes.stdout = <<>> /\ pipes.stderr = <<>>
    /\ LET output == [state |-> "reaped", stdin |-> child.stdin, status |-> child.status,
                      stdout |-> pipes.outRead, stderr |-> pipes.errRead]
       IN  /\ result' = InterpretOutput(output)
           /\ child' = output
    /\ pc' = "returned"
    /\ UNCHANGED pipes
    /\ PipeFrame

\* the subprocess writes bytes of its banner; it blocks while the stdout pipe
\* is full
ChildWritesBanner ==
    /\ child.state = "running"
    /\ pipes.banner # <<>>
    /\ Len(pipes.stdout) < PipeCapacity
    /\ LET k == Chunk(pipes.banner, pipes.stdout)
       IN  pipes' = [pipes EXCEPT !.stdout = @ \o SubSeq(pipes.banner, 1, k),
                                  !.banner = SubSeq(@, k + 1, Len(@))]
    /\ UNCHANGED <<pc, child, result>>
    /\ PipeFrame

\* the subprocess reads what is in the stdin pipe
ChildReads ==
    /\ child.state = "running"
    /\ pipes.banner = <<>> /\ ~pipes.eof
    /\ pipes.stdin # <<>>
    /\ pipes' = [pipes EXCEPT !.got = @ \o pipes.stdin, !.stdin = <<>>]
    /\ UNCHANGED <<pc, child, result>>
    /\ PipeFrame

\* the subprocess reads the end of its input: the pipe is empty and closed
ChildReadsEof ==
    /\ child.state = "running"
    /\ pipes.banner = <<>> /\ ~pipes.eof
    /\ pipes.stdin = <<>> /\ ~pipes.stdinOpen
    /\ pipes' = [pipes EXCEPT !.eof = TRUE]
    /\ UNCHANGED <<pc, child, result>>
    /\ PipeFrame

\* the subprocess writes bytes of the rest of its stdout
ChildWritesReply ==
    /\ child.state = "running"
    /\ pipes.eof /\ pipes.reply # <<>>
    /\ Len(pipes.stdout) < PipeCapacity
    /\ LET k == Chunk(pipes.reply, pipes.stdout)
       IN  pipes' = [pipes EXCEPT !.stdout = @ \o SubSeq(pipes.reply, 1, k),
                                  !.reply = SubSeq(@, k + 1, Len(@))]
    /\ UNCHANGED <<pc, child, result>>
    /\ PipeFrame

\* the subprocess writes bytes of its stderr
ChildWritesStderr ==
    /\ child.state = "running"
    /\ pipes.eof /\ pipes.err # <<>>
    /\ Len(pipes.stderr) < PipeCapacity
    /\ LET k == Chunk(pipes.err, pipes.stderr)
       IN  pipes' = [pipes EXCEPT !.stderr = @ \o SubSeq(pipes.err, 1, k),
                                  !.err = SubSeq(@, k + 1, Len(@))]
    /\ UNCHANGED <<pc, child, result>>
    /\ PipeFrame

\* the subprocess has written everything and exits
ChildTerminates ==
    /\ child.state = "running"
    /\ pipes.eof /\ pipes.reply = <<>> /\ pipes.err = <<>>
    /\ child' = [child EXCEPT !.state = "exited", !.stdin = "closed",
                              !.status = pipes.code]
    /\ UNCHANGED <<pc, result, pipes>>
    /\ PipeFrame

\* the steps of invoke_kiro
PipeParent ==
    \/ Spawn
    \/ SpawnFails
    \/ WriteChunk
    \/ CloseStdin
    \/ ReadStdout
    \/ ReadStderr
    \/ CollectOutput
    \/ WaitFails

\* the steps of the subprocess
PipeChild ==
    \/ ChildWritesBanner
    \/ ChildReads
    \/ ChildReadsEof
    \/ ChildWritesReply
    \/ ChildWritesStderr
    \/ ChildTerminates

PipeNext == PipeParent \/ PipeChild

\* the runtime runs invoke_kiro whenever it is not blocked, and the operating
\* system runs the subprocess whenever it is not blocked
SpecPipes ==
    PipeInit /\ [][PipeNext]_vars /\ WF_vars(PipeParent) /\ WF_vars(PipeChild)

-----------------------------------------------------------------------------
(* C11                                                                     *)

\* C11, as claimed: an invocation never deadlocks: with bounded pipes, for
\* every prompt size and every subprocess that reads all of its input, writes
\* its output and exits, invoke_kiro eventually returns a result or an error.
C11_InvocationReturns == <>(pc = "returned")

\* the invocation returns whenever the prompt fits the stdin pipe or the
\* banner of the subprocess fits the stdout pipe
ReturnsUnlessBothBlock ==
    (Len(prompt) <= PipeCapacity \/ pipes.plan <= PipeCapacity) => <>(pc = "returned")

=============================================================================
